---- MODULE Spec2Model ----
(***************************************************************************)
(* Nexus: the socket.io server of backend/src/index.ts, the persistent     *)
(* client channels connected to it, and the frames the meeting page        *)
(* (frontend/src/pages/meeting/MeetingPage.tsx) puts on those channels.    *)
(*                                                                         *)
(* The server registers one handler, io.on('connection'), which logs and   *)
(* registers one listener, socket.on('disconnect'), which logs.  It        *)
(* registers no listener for join-room, signal, toggle-*, chat-message or  *)
(* any other client frame, never calls socket.join and never emits.        *)
(***************************************************************************)
EXTENDS Integers, Sequences, FiniteSets, TLC

\* ------------------------------------------------------------------ bounds
NumSockets == 2
NumPayloads == 2
MaxFrames == 3
GracePeriod == 2
MaxMounts == 2
MaxLeaves == 1
MaxClicks == 2
NumPages == 1

Sockets == 1..NumSockets
Payloads == 1..NumPayloads
\* The clients whose meeting page is followed step by step.
Pages == 1..NumPages
Meetings == {"M1"}
NoMeeting == "none"

VARIABLES
    connected,    \* sockets with an open connection to the server
    rooms,        \* socket.io adapter rooms: meeting id -> member sockets
    wire,         \* client -> server frames in flight, FIFO per connection
    inbox,        \* server -> client frames delivered, per socket
    status,       \* meeting status in the external meeting store
    restJoined,   \* client: meeting joined through POST /meetings/{id}/join
    controls,     \* client: MeetingControls state of the meeting page
    accepted,     \* meeting whose join-room of this connection was handled
                  \* without a rejection being returned (NoMeeting if none)
    handled,      \* history: frames the server has received, with context
    sent,         \* number of frames clients have emitted so far
    bridge,       \* transcription bridge of a meeting: "IDLE" or "STREAMING"
    subs,         \* open transcription worker subscriptions of a meeting
    isTranscribing, \* client: the page's isTranscribing as last rendered
    lastTx,       \* history: the last operation on a meeting's bridge
    view,         \* client: videoEnabled of each participant as the page holds
                  \* it, <<v>> or <<>> when undefined
    lastEvent,    \* history: the last video toggle event the page handled
    emptyTicks,   \* timer ticks a meeting has been ACTIVE with nobody admitted
    auth,         \* client: what useAuth() returns (isLoading, isAuthenticated,
                  \* the user's role as <<r>>, <<>> without a user)
    location,     \* client: the path the router is at
    screen,       \* client: what the route element of that path rendered
    mounted,      \* client: meeting whose page effect is active (NoMeeting if
                  \* the page is not mounted)
    inits,        \* activations of initializeMeeting, in the order started
    cleanups,     \* activations of cleanup, in the order started
    roomJoined,   \* client: joinMeetingRoom resolved, leaveMeetingRoom not since
    media,        \* client: WebRTC media acquired and not released
    notice,       \* client: the notification last shown by the page
    clicks,       \* activations of the audio/video/screen toggle handlers
    track,        \* client: enabled state of the local media tracks
    lastEmit      \* history: the last frame a client emitted, with the state
                  \* it was emitted in (<<>> if none)

pageVars == <<bridge, subs, isTranscribing, lastTx, view, lastEvent>>

clientVars == <<auth, location, screen, mounted, inits, cleanups, roomJoined,
                media, notice, clicks>>

quietVars == <<clientVars, track, lastEmit>>

vars == <<connected, rooms, wire, inbox, status, restJoined, controls,
          accepted, handled, sent, pageVars, emptyTicks, quietVars>>

\* ------------------------------------------------------------------ frames
\* A client -> server frame: the event, the set of participants it is
\* targeted at (empty unless it is a signal), and its data.
Frame(type, to, data) == [type |-> type, to |-> to, data |-> data]

\* A server -> client frame: the event, the participant it is about, its data.
ServerFrame(type, from, data) == [type |-> type, from |-> from, data |-> data]

\* The error event returned to socket t.
ErrorFrame(t, code) == ServerFrame("error", t, code)

\* Frames the server emits to socket t while it handles frame f received
\* from socket s.  The connection handler calls socket.on only for
\* 'disconnect' and calls emit nowhere: socket.io discards a frame whose
\* event has no listener, so nothing is sent to anyone, the sender included.
ServerEmits(t, s, f) == <<>>

\* Room membership after the server handled frame f from socket s: the
\* server never calls socket.join or socket.leave.
RoomsAfter(s, f) == rooms

\* listActive(meetingId): the roster of a meeting as the server holds it.
listActive(m) == rooms[m]

\* The connections admitted to meeting m: their join-room was handled and
\* not rejected, and they have not disconnected since.
Admitted(m) == {s \in Sockets : accepted[s] = m}

\* ------------------------------------------------------- routes (App.tsx)
Roles == {"host", "participant", "guest"}

\* user?.role: <<r>>, or <<>> when there is no user.
OptRoles == {<<>>} \cup {<<r>> : r \in Roles}

\* Every value useAuth() can hand to a route guard.
AuthInputs ==
    [isLoading : BOOLEAN, isAuthenticated : BOOLEAN, role : OptRoles]

\* useAuth() while the session is being restored, and the values it
\* settles on: authenticated exactly when there is a user.
AuthLoading == [isLoading |-> TRUE, isAuthenticated |-> FALSE, role |-> <<>>]

AuthSettled ==
    {a \in AuthInputs : ~a.isLoading /\ (a.isAuthenticated <=> a.role # <<>>)}

MeetingPath == "/meeting/:meetingId"

ProtectedPaths ==
    {"/dashboard", "/profile", "/settings", "/analytics",
     "/meeting/:meetingId/lobby", MeetingPath}

PublicPaths == {"/login", "/register"}

Paths == ProtectedPaths \cup PublicPaths \cup {"/", "*"}

\* What a route element renders.
Spinner == [kind |-> "spinner", to |-> ""]

Children == [kind |-> "children", to |-> ""]

Navigate(to) == [kind |-> "navigate", to |-> to]

\* ProtectedRoute without the isAuthenticated test.
ProtectedRouteOpen(a, requiredRole) ==
    IF a.isLoading THEN Spinner
    ELSE IF requiredRole # <<>> /\ a.role # requiredRole
         THEN Navigate("/dashboard")
         ELSE Children

ProtectedRoute(a, requiredRole) ==
    IF a.isLoading THEN Spinner
    ELSE IF ~a.isAuthenticated THEN Navigate("/login")
    ELSE IF requiredRole # <<>> /\ a.role # requiredRole
         THEN Navigate("/dashboard")
         ELSE Children

PublicRoute(a) ==
    IF a.isLoading THEN Spinner
    ELSE IF a.isAuthenticated THEN Navigate("/dashboard")
    ELSE Children

\* The requiredRole prop of the route of a path: no <Route> passes one.
RequiredRole(path) == <<>>

\* The element of <Routes> for a path, rendered with auth value a.
Element(path, a) ==
    IF path \in ProtectedPaths THEN ProtectedRoute(a, RequiredRole(path))
    ELSE IF path \in PublicPaths THEN PublicRoute(a)
    ELSE Children

\* ------------------------------------------------------------------- init
InitControls ==
    [audioEnabled |-> TRUE, videoEnabled |-> TRUE, screenSharing |-> FALSE,
     handRaised |-> FALSE, isRecording |-> FALSE]

\* The local tracks as acquired with the initial controls.
InitTrack == [audio |-> TRUE, video |-> TRUE, screen |-> FALSE]

\* showNotification state before anything was shown, and after
\* showNotification(severity, message).
NoNotice == [open |-> FALSE, message |-> "", severity |-> "info"]

Notice(severity, message) ==
    [open |-> TRUE, message |-> message, severity |-> severity]

\* No operation has been applied to the bridge yet.
NoTx == [op |-> "none", before |-> "IDLE", result |-> "ok", room |-> {}]

Init ==
    /\ connected = {}
    /\ rooms = [m \in Meetings |-> {}]
    /\ wire = [s \in Sockets |-> <<>>]
    /\ inbox = [s \in Sockets |-> <<>>]
    /\ status = [m \in Meetings |-> "SCHEDULED"]
    /\ restJoined = [s \in Sockets |-> NoMeeting]
    /\ controls = [s \in Sockets |-> InitControls]
    /\ accepted = [s \in Sockets |-> NoMeeting]
    /\ handled = <<>>
    /\ sent = 0
    /\ bridge = [m \in Meetings |-> "IDLE"]
    /\ subs = [m \in Meetings |-> 0]
    /\ isTranscribing = [s \in Sockets |-> FALSE]
    /\ lastTx = [m \in Meetings |-> NoTx]
    /\ view = [b \in Sockets |-> [a \in Sockets |-> <<TRUE>>]]
    /\ lastEvent = [b \in Sockets |-> <<>>]
    /\ emptyTicks = [m \in Meetings |-> 0]
    /\ auth = [s \in Sockets |-> AuthLoading]
    /\ location = [s \in Sockets |-> MeetingPath]
    /\ screen = [s \in Sockets |-> Element(MeetingPath, AuthLoading)]
    /\ mounted = [s \in Sockets |-> NoMeeting]
    /\ inits = <<>>
    /\ cleanups = <<>>
    /\ roomJoined = [s \in Sockets |-> FALSE]
    /\ media = [s \in Sockets |-> FALSE]
    /\ notice = [s \in Sockets |-> NoNotice]
    /\ clicks = <<>>
    /\ track = [s \in Sockets |-> InitTrack]
    /\ lastEmit = [s \in Sockets |-> <<>>]

\* ------------------------------------------------------- server (index.ts)
\* io.on('connection'): logs the socket id, registers the disconnect listener.
Connection(s) ==
    /\ s \notin connected
    /\ connected' = connected \cup {s}
    /\ UNCHANGED <<rooms, wire, inbox, status, restJoined, controls,
                   accepted, handled, sent>>
    /\ UNCHANGED <<pageVars, emptyTicks, quietVars>>

\* socket.on('disconnect'): logs.  socket.io itself takes the socket out of
\* every room; frames still in flight on the closed connection are lost.
Disconnect(s) ==
    /\ s \in connected
    /\ connected' = connected \ {s}
    /\ rooms' = [m \in Meetings |-> rooms[m] \ {s}]
    /\ wire' = [wire EXCEPT ![s] = <<>>]
    /\ accepted' = [accepted EXCEPT ![s] = NoMeeting]
    /\ UNCHANGED <<inbox, status, restJoined, controls, handled, sent>>
    /\ UNCHANGED <<pageVars, emptyTicks, quietVars>>

Rejected(s, f) ==
    \E i \in 1..Len(ServerEmits(s, s, f)) : ServerEmits(s, s, f)[i].type = "error"

\* The server receives the next frame of connection s and dispatches it to
\* the listeners registered for its event.
Receive(s) ==
    /\ s \in connected
    /\ wire[s] # <<>>
    /\ LET f == Head(wire[s]) IN
        /\ wire' = [wire EXCEPT ![s] = Tail(wire[s])]
        /\ inbox' = [t \in Sockets |-> inbox[t] \o ServerEmits(t, s, f)]
        /\ rooms' = RoomsAfter(s, f)
        /\ accepted' = IF f.type = "join-room" /\ ~Rejected(s, f)
                       THEN [accepted EXCEPT ![s] = f.data]
                       ELSE accepted
        /\ handled' = Append(handled,
                        [from |-> s, frame |-> f, acc |-> accepted,
                         st |-> status])
        /\ emptyTicks' = [m \in Meetings |->
                            IF \E t \in Sockets : accepted'[t] = m
                            THEN 0 ELSE emptyTicks[m]]
    /\ UNCHANGED <<connected, status, restJoined, controls, sent, pageVars,
                   quietVars>>

\* ------------------------------------------------ external meeting store
\* POST /meetings/{id}/join, called through useMeeting().joinMeeting.
joinMeeting(s, m) ==
    /\ restJoined[s] = NoMeeting
    /\ status[m] # "ENDED"
    /\ status' = [status EXCEPT ![m] = "ACTIVE"]
    /\ restJoined' = [restJoined EXCEPT ![s] = m]
    /\ UNCHANGED <<connected, rooms, wire, inbox, controls, accepted,
                   handled, sent>>
    /\ UNCHANGED <<pageVars, emptyTicks, quietVars>>

\* POST /meetings/{id}/end.
endMeeting(m) ==
    /\ status[m] = "ACTIVE"
    /\ status' = [status EXCEPT ![m] = "ENDED"]
    /\ UNCHANGED <<connected, rooms, wire, inbox, restJoined, controls,
                   accepted, handled, sent>>
    /\ UNCHANGED <<pageVars, emptyTicks, quietVars>>

\* ------------------------------------------------- client (MeetingPage.tsx)
Emit(s, f) ==
    /\ s \in connected
    /\ sent < MaxFrames
    /\ wire' = [wire EXCEPT ![s] = Append(wire[s], f)]
    /\ sent' = sent + 1
    /\ lastEmit' = [lastEmit EXCEPT ![s] =
           <<[frame |-> f, joined |-> roomJoined[s], role |-> auth[s].role]>>]

\* initializeMeeting, last step: joinMeetingRoom(meetingId, ...) sends the
\* join-room frame once the REST join has succeeded.
joinMeetingRoom(s) ==
    /\ restJoined[s] # NoMeeting
    /\ Emit(s, Frame("join-room", {}, restJoined[s]))
    /\ UNCHANGED <<connected, rooms, inbox, status, restJoined, controls,
                   accepted, handled>>
    /\ UNCHANGED <<pageVars, emptyTicks, clientVars, track>>

\* handleToggleAudio with toggleAudio() resolving at once: the track is
\* toggled, newState = !controls.audioEnabled is stored and emitted.
\* (toggleClick and toggleSettled below take the handler apart at its await.)
handleToggleAudio(s) ==
    /\ LET newState == ~controls[s].audioEnabled IN
        /\ track' = [track EXCEPT ![s].audio = ~@]
        /\ controls' = [controls EXCEPT ![s].audioEnabled = newState]
        /\ Emit(s, Frame("toggle-audio", {}, newState))
    /\ UNCHANGED <<connected, rooms, inbox, status, restJoined, accepted,
                   handled>>
    /\ UNCHANGED <<pageVars, emptyTicks, clientVars>>

\* handleToggleVideo: newState = !controls.videoEnabled, stored and emitted.
handleToggleVideo(s) ==
    /\ LET newState == ~controls[s].videoEnabled IN
        /\ track' = [track EXCEPT ![s].video = ~@]
        /\ controls' = [controls EXCEPT ![s].videoEnabled = newState]
        /\ Emit(s, Frame("toggle-video", {}, newState))
    /\ UNCHANGED <<connected, rooms, inbox, status, restJoined, accepted,
                   handled>>
    /\ UNCHANGED <<pageVars, emptyTicks, clientVars>>

\* signal{targetParticipantId, type, payload}, sent by the WebRTC hook.
sendSignal(s, t, p) ==
    /\ t # s
    /\ Emit(s, Frame("signal", {t}, p))
    /\ UNCHANGED <<connected, rooms, inbox, status, restJoined, controls,
                   accepted, handled>>
    /\ UNCHANGED <<pageVars, emptyTicks, clientVars, track>>

\* chat-message{body}, sent through useWebSocket().sendMessage.
sendMessage(s, p) ==
    /\ Emit(s, Frame("chat-message", {}, p))
    /\ UNCHANGED <<connected, rooms, inbox, status, restJoined, controls,
                   accepted, handled>>
    /\ UNCHANGED <<pageVars, emptyTicks, clientVars, track>>

\* ------------------------------------------- transcription (useTranscription)
\* An optional value: <<v>> when the field is present, <<>> when undefined.
Field(data, k) == IF k \in DOMAIN data THEN <<data[k]>> ELSE <<>>

\* start(meetingId) without the AlreadyStreaming guard.
startTranscriptionUnguarded(m) ==
    /\ bridge' = [bridge EXCEPT ![m] = "STREAMING"]
    /\ subs' = [subs EXCEPT ![m] = subs[m] + 1]
    /\ lastTx' = [lastTx EXCEPT ![m] =
           [op |-> "start", before |-> bridge[m], result |-> "ok",
            room |-> {}]]

\* start(meetingId): fails with AlreadyStreaming while STREAMING, otherwise
\* opens the worker subscription and goes STREAMING.
startTranscription(m) ==
    IF bridge[m] = "STREAMING"
    THEN /\ lastTx' = [lastTx EXCEPT ![m] =
                [op |-> "start", before |-> bridge[m],
                 result |-> "AlreadyStreaming", room |-> {}]]
         /\ UNCHANGED <<bridge, subs>>
    ELSE /\ bridge' = [bridge EXCEPT ![m] = "STREAMING"]
         /\ subs' = [subs EXCEPT ![m] = subs[m] + 1]
         /\ lastTx' = [lastTx EXCEPT ![m] =
                [op |-> "start", before |-> bridge[m], result |-> "ok",
                 room |-> {}]]

\* stop(meetingId) that forgets the worker subscription.
stopTranscriptionLeaky(m) ==
    /\ bridge' = [bridge EXCEPT ![m] = "IDLE"]
    /\ subs' = subs
    /\ lastTx' = [lastTx EXCEPT ![m] =
           [op |-> "stop", before |-> bridge[m], result |-> "ok", room |-> {}]]

\* stop(meetingId): tears the worker subscription down and goes IDLE.
stopTranscription(m) ==
    /\ bridge' = [bridge EXCEPT ![m] = "IDLE"]
    /\ subs' = [subs EXCEPT ![m] = 0]
    /\ lastTx' = [lastTx EXCEPT ![m] =
           [op |-> "stop", before |-> bridge[m], result |-> "ok", room |-> {}]]

\* handleToggleTranscription: stops when the page rendered isTranscribing,
\* starts otherwise; the page then renders the state the bridge is in.
handleToggleTranscription(s, m) ==
    /\ IF isTranscribing[s] THEN stopTranscription(m) ELSE startTranscription(m)
    /\ isTranscribing' = [isTranscribing EXCEPT ![s] = (bridge'[m] = "STREAMING")]
    /\ UNCHANGED <<connected, rooms, wire, inbox, status, restJoined, controls,
                   accepted, handled, sent, view, lastEvent, emptyTicks,
                   quietVars>>

\* cleanup: await leaveMeetingRoom(), await leaveMeeting(), await
\* cleanupWebRTC(), then stopTranscription(); a step that throws ends the
\* sequence in the catch.  done is the number of awaited steps that resolved.
cleanup(s, m, done) ==
    /\ restJoined' = IF done >= 2 THEN [restJoined EXCEPT ![s] = NoMeeting]
                     ELSE restJoined
    /\ IF done = 3
       THEN /\ stopTranscription(m)
            /\ isTranscribing' = [isTranscribing EXCEPT ![s] = FALSE]
       ELSE UNCHANGED <<bridge, subs, lastTx, isTranscribing>>
    /\ UNCHANGED <<connected, rooms, wire, inbox, status, controls,
                   accepted, handled, sent, view, lastEvent, emptyTicks,
                   quietVars>>

\* Frames the server emits to socket t when the transcription worker of
\* meeting m goes away: index.ts calls emit nowhere.
WorkerLostEmits(t, m) == <<>>

\* The transcription worker disconnects or becomes unreachable: the bridge
\* goes IDLE (implicit stop).  lastTx keeps who was admitted at that time.
workerDisconnect(m) ==
    /\ bridge[m] = "STREAMING"
    /\ bridge' = [bridge EXCEPT ![m] = "IDLE"]
    /\ subs' = [subs EXCEPT ![m] = 0]
    /\ lastTx' = [lastTx EXCEPT ![m] =
           [op |-> "workerDisconnect", before |-> bridge[m], result |-> "ok",
            room |-> Admitted(m)]]
    /\ inbox' = [t \in Sockets |-> inbox[t] \o WorkerLostEmits(t, m)]
    /\ UNCHANGED <<connected, rooms, wire, status, restJoined, controls,
                   accepted, handled, sent, isTranscribing, view, lastEvent,
                   emptyTicks, quietVars>>

\* --------------------------------------------- participant-video-toggle
\* The event as the server contract words it.
VideoToggleEvents ==
    {[participantId |-> a, enabled |-> v] : a \in Sockets, v \in BOOLEAN}

\* Event data publishes a toggle-video frame the server has received.
Published(data) ==
    \E i \in 1..Len(handled) :
        /\ handled[i].from = data.participantId
        /\ handled[i].frame.type = "toggle-video"
        /\ handled[i].frame.data = data.enabled

\* updateParticipant(userId, updates): merges updates into the participant
\* with that user id; no participant has an undefined id.
updateParticipant(b, userId, videoEnabled) ==
    IF userId = <<>>
    THEN view
    ELSE [view EXCEPT ![b][userId[1]] = videoEnabled]

\* handleParticipantVideoToggle, run for the event that publishes a toggle:
\*   updateParticipant(data.userId, { videoEnabled: data.videoEnabled })
handleParticipantVideoToggle(b, data) ==
    /\ b \in connected
    /\ data.participantId # b
    /\ Published(data)
    /\ view' = updateParticipant(b, Field(data, "userId"),
                                 Field(data, "videoEnabled"))
    /\ lastEvent' = [lastEvent EXCEPT ![b] = <<data>>]
    /\ UNCHANGED <<connected, rooms, wire, inbox, status, restJoined, controls,
                   accepted, handled, sent, bridge, subs, isTranscribing,
                   lastTx, emptyTicks, quietVars>>

\* ------------------------------------------------------------------ timer
\* One timer period passes while meeting m is ACTIVE with nobody admitted.
\* The server sets no timer: nothing in it reacts.
Tick(m) ==
    /\ status[m] = "ACTIVE"
    /\ Admitted(m) = {}
    /\ emptyTicks[m] <= GracePeriod
    /\ emptyTicks' = [emptyTicks EXCEPT ![m] = emptyTicks[m] + 1]
    /\ UNCHANGED <<connected, rooms, wire, inbox, status, restJoined, controls,
                   accepted, handled, sent, pageVars, quietVars>>

\* ------------------------------------------------------- routing (App.tsx)
\* navigate(to) / <Navigate to>: the router goes to path `to` and renders
\* its element.  When the meeting page is mounted it unmounts, and the
\* cleanup of its effect starts a cleanup() on the list cs of activations.
NewCleanup(s, m, by) ==
    [s |-> s, m |-> m, by |-> by, pc |-> "leaveMeetingRoom", released |-> {}]

navigate(s, to, cs) ==
    /\ location' = [location EXCEPT ![s] = to]
    /\ screen' = [screen EXCEPT ![s] = Element(to, auth[s])]
    /\ mounted' = [mounted EXCEPT ![s] = NoMeeting]
    /\ cleanups' = IF mounted[s] # NoMeeting
                   THEN Append(cs, NewCleanup(s, mounted[s], "unmount"))
                   ELSE cs

\* useAuth() settles on value a; the route element renders again.
authResolved(s, a) ==
    /\ auth[s].isLoading
    /\ auth' = [auth EXCEPT ![s] = a]
    /\ screen' = [screen EXCEPT ![s] = Element(location[s], a)]
    /\ UNCHANGED <<connected, rooms, wire, inbox, status, restJoined, controls,
                   accepted, handled, sent, pageVars, emptyTicks, location,
                   mounted, inits, cleanups, roomJoined, media, notice, clicks,
                   track, lastEmit>>

\* The user opens a path of the application.
open(s, path) ==
    /\ mounted[s] = NoMeeting
    /\ navigate(s, path, cleanups)
    /\ UNCHANGED <<connected, rooms, wire, inbox, status, restJoined, controls,
                   accepted, handled, sent, pageVars, emptyTicks, auth, inits,
                   roomJoined, media, notice, clicks, track, lastEmit>>

\* A rendered <Navigate to=... replace /> takes effect.
followNavigate(s) ==
    /\ screen[s].kind = "navigate"
    /\ navigate(s, screen[s].to, cleanups)
    /\ UNCHANGED <<connected, rooms, wire, inbox, status, restJoined, controls,
                   accepted, handled, sent, pageVars, emptyTicks, auth, inits,
                   roomJoined, media, notice, clicks, track, lastEmit>>

\* ------------------------------------- page life cycle (MeetingPage.tsx)
\* The awaited calls of initializeMeeting, in the order of its statements.
NextInitStep(pc) ==
    CASE pc = "joinMeeting" -> "initializeWebRTC"
      [] pc = "initializeWebRTC" -> "joinMeetingRoom"
      [] pc = "joinMeetingRoom" -> "done"

InitSteps == {"joinMeeting", "initializeWebRTC", "joinMeetingRoom"}

\* A fresh activation: joinMeeting(...) has been called and is awaited.
NewInit(s, m) ==
    [s |-> s, m |-> m, pc |-> "joinMeeting", ran |-> <<"joinMeeting">>,
     okd |-> <<>>]

\* initializeMeeting without its try/catch: the statement after a rejected
\* await runs all the same.
InitAfterNoCatch(t, ok) ==
    LET next == NextInitStep(t.pc) IN
    [t EXCEPT !.pc = next,
              !.ran = IF next = "done" THEN @ ELSE Append(@, next),
              !.okd = IF ok THEN Append(@, t.pc) ELSE @]

\* The activation after the call it awaits settled: resolved (ok), the next
\* statement calls the next step; rejected, control is in the catch.  ran
\* lists the steps called so far, okd those that resolved.
InitAfter(t, ok) ==
    LET next == NextInitStep(t.pc) IN
    IF ok
    THEN [t EXCEPT !.pc = next,
                   !.ran = IF next = "done" THEN @ ELSE Append(@, next),
                   !.okd = Append(@, t.pc)]
    ELSE [t EXCEPT !.pc = "failed"]

\* The awaited calls of cleanup, in the order of its statements.
NextCleanupStep(pc) ==
    CASE pc = "leaveMeetingRoom" -> "leaveMeeting"
      [] pc = "leaveMeeting" -> "cleanupWebRTC"
      [] pc = "cleanupWebRTC" -> "done"

CleanupSteps == {"leaveMeetingRoom", "leaveMeeting", "cleanupWebRTC"}

ReleaseSteps == CleanupSteps \cup {"stopTranscription"}

\* State of the hooks the render guards read: useMeeting().isLoading and
\* error, useWebRTC().isConnecting and error.
meetingLoading(s) ==
    \E i \in 1..Len(inits) : inits[i].s = s /\ inits[i].pc = "joinMeeting"

isConnecting(s) ==
    \E i \in 1..Len(inits) : inits[i].s = s /\ inits[i].pc = "initializeWebRTC"

meetingError(s) ==
    \E i \in 1..Len(inits) :
        /\ inits[i].s = s
        /\ inits[i].pc = "failed"
        /\ inits[i].ran[Len(inits[i].ran)] = "joinMeeting"

webrtcError(s) ==
    \E i \in 1..Len(inits) :
        /\ inits[i].s = s
        /\ inits[i].pc = "failed"
        /\ inits[i].ran[Len(inits[i].ran)] = "initializeWebRTC"

\* The page renders its control bar: it is mounted and neither of the two
\* early returns of the render (spinner, error alert) is taken.
ControlsRendered(s) ==
    /\ mounted[s] # NoMeeting
    /\ ~(meetingLoading(s) \/ isConnecting(s))
    /\ ~(meetingError(s) \/ webrtcError(s))

\* The meeting page mounts (or its effect runs again): with a meeting id and
\* a user, initializeMeeting() is called and runs up to its first await.
mount(s, m) ==
    /\ location[s] = MeetingPath
    /\ screen[s] = Children
    /\ mounted[s] = NoMeeting
    /\ Len(inits) < MaxMounts
    /\ mounted' = [mounted EXCEPT ![s] = m]
    /\ inits' = IF auth[s].role # <<>> THEN Append(inits, NewInit(s, m))
                ELSE inits
    /\ UNCHANGED <<connected, rooms, wire, inbox, status, restJoined, controls,
                   accepted, handled, sent, pageVars, emptyTicks, auth,
                   location, screen, cleanups, roomJoined, media, notice,
                   clicks, track, lastEmit>>

\* The page unmounts (StrictMode's simulated unmount, a change of the
\* effect's dependencies): the effect's cleanup calls cleanup(), which runs
\* up to its first await.
unmount(s) ==
    /\ mounted[s] # NoMeeting
    /\ mounted' = [mounted EXCEPT ![s] = NoMeeting]
    /\ cleanups' = Append(cleanups, NewCleanup(s, mounted[s], "unmount"))
    /\ UNCHANGED <<connected, rooms, wire, inbox, status, restJoined, controls,
                   accepted, handled, sent, pageVars, emptyTicks, auth,
                   location, screen, inits, roomJoined, media, notice, clicks,
                   track, lastEmit>>

\* The call awaited by activation i of initializeMeeting settles.  Resolved:
\* the hook's call has taken effect and the next statement runs (after the
\* last one, the success notification).  Rejected: the catch shows the error
\* notification and navigates to /dashboard.
initializeMeetingStep(i, ok) ==
    /\ i \in 1..Len(inits)
    /\ inits[i].pc \in InitSteps
    /\ LET t == inits[i]
           s == inits[i].s
           after == InitAfter(inits[i], ok)
       IN
        /\ inits' = [inits EXCEPT ![i] = after]
        /\ IF ok
           THEN /\ t.pc = "joinMeeting" => status[t.m] # "ENDED"
                /\ restJoined' = IF t.pc = "joinMeeting"
                                 THEN [restJoined EXCEPT ![s] = t.m]
                                 ELSE restJoined
                /\ status' = IF t.pc = "joinMeeting"
                             THEN [status EXCEPT ![t.m] = "ACTIVE"]
                             ELSE status
                /\ media' = IF t.pc = "initializeWebRTC"
                            THEN [media EXCEPT ![s] = TRUE]
                            ELSE media
                /\ roomJoined' = IF t.pc = "joinMeetingRoom"
                                 THEN [roomJoined EXCEPT ![s] = TRUE]
                                 ELSE roomJoined
                /\ notice' = IF after.pc = "done"
                             THEN [notice EXCEPT ![s] =
                                     Notice("success",
                                            "Successfully joined the meeting")]
                             ELSE notice
                /\ UNCHANGED <<location, screen, mounted, cleanups>>
           ELSE /\ notice' = [notice EXCEPT ![s] =
                                Notice("error", "Failed to join the meeting")]
                /\ IF after.pc = "failed"
                   THEN navigate(s, "/dashboard", cleanups)
                   ELSE UNCHANGED <<location, screen, mounted, cleanups>>
                /\ UNCHANGED <<restJoined, status, media, roomJoined>>
    /\ UNCHANGED <<connected, rooms, wire, inbox, controls, accepted, handled,
                   sent, pageVars, emptyTicks, auth, clicks, track, lastEmit>>

\* The call awaited by activation i of cleanup settles.  Resolved: the
\* hook's call has taken effect and the next statement runs; after
\* cleanupWebRTC that is stopTranscription(), which is not awaited.
\* Rejected: the catch logs, the remaining statements are skipped.  When
\* cleanup() was called by handleLeaveMeeting, that handler goes on to
\* navigate('/dashboard') either way.
cleanupStep(i, ok) ==
    /\ i \in 1..Len(cleanups)
    /\ cleanups[i].pc \in CleanupSteps
    /\ LET t == cleanups[i]
           s == cleanups[i].s
           next == IF ok THEN NextCleanupStep(cleanups[i].pc) ELSE "failed"
           rel == IF ~ok THEN cleanups[i].released
                  ELSE IF next = "done"
                       THEN cleanups[i].released
                                \cup {cleanups[i].pc, "stopTranscription"}
                       ELSE cleanups[i].released \cup {cleanups[i].pc}
           cs == [cleanups EXCEPT ![i] =
                     [cleanups[i] EXCEPT !.pc = next, !.released = rel]]
       IN
        /\ roomJoined' = IF ok /\ t.pc = "leaveMeetingRoom"
                         THEN [roomJoined EXCEPT ![s] = FALSE]
                         ELSE roomJoined
        /\ restJoined' = IF ok /\ t.pc = "leaveMeeting"
                         THEN [restJoined EXCEPT ![s] = NoMeeting]
                         ELSE restJoined
        /\ media' = IF ok /\ t.pc = "cleanupWebRTC"
                    THEN [media EXCEPT ![s] = FALSE]
                    ELSE media
        /\ IF next = "done"
           THEN /\ stopTranscription(t.m)
                /\ isTranscribing' = [isTranscribing EXCEPT ![s] = FALSE]
           ELSE UNCHANGED <<bridge, subs, lastTx, isTranscribing>>
        /\ IF next \in {"done", "failed"} /\ t.by = "leave"
           THEN navigate(s, "/dashboard", cs)
           ELSE /\ cleanups' = cs
                /\ UNCHANGED <<location, screen, mounted>>
    /\ UNCHANGED <<connected, rooms, wire, inbox, status, controls, accepted,
                   handled, sent, view, lastEvent, emptyTicks, auth, inits,
                   notice, clicks, track, lastEmit>>

\* The Leave button: handleLeaveMeeting calls cleanup() and awaits it.
handleLeaveMeeting(s) ==
    /\ ControlsRendered(s)
    /\ Cardinality({i \in 1..Len(cleanups) : cleanups[i].by = "leave"})
          < MaxLeaves
    /\ cleanups' = Append(cleanups, NewCleanup(s, mounted[s], "leave"))
    /\ UNCHANGED <<connected, rooms, wire, inbox, status, restJoined, controls,
                   accepted, handled, sent, pageVars, emptyTicks, auth,
                   location, screen, mounted, inits, roomJoined, media, notice,
                   clicks, track, lastEmit>>

\* --------------------------------------- control bar (MeetingPage.tsx)
Kinds == {"audio", "video", "screen"}

\* The flag of controls, the frame and the error message of a toggle.
FlagOf(k) ==
    CASE k = "audio" -> "audioEnabled"
      [] k = "video" -> "videoEnabled"
      [] k = "screen" -> "screenSharing"

FrameOf(k) ==
    CASE k = "audio" -> "toggle-audio"
      [] k = "video" -> "toggle-video"
      [] k = "screen" -> "toggle-screen-share"

FailMessage(k) ==
    CASE k = "audio" -> "Failed to toggle audio"
      [] k = "video" -> "Failed to toggle video"
      [] k = "screen" -> "Failed to toggle screen share"

\* Clicks whose awaited call has not settled, and the frames the handlers
\* may still emit within the bound on frames.
PendingClicks == {i \in 1..Len(clicks) : clicks[i].pc = "pending"}

CanEmit(s) ==
    /\ s \in connected
    /\ sent + Cardinality(PendingClicks) < MaxFrames

\* The local track after the call a click made resolved: toggleAudio and
\* toggleVideo flip the track, startScreenShare and stopScreenShare (chosen
\* by controls.screenSharing as the handler saw it) set it.
TrackAfter(t) ==
    IF t.kind = "screen"
    THEN [track EXCEPT ![t.s].screen = ~t.seen]
    ELSE [track EXCEPT ![t.s][t.kind] = ~@]

\* A toggle handler that stores the new flag although its call rejected.
ControlsAfterToggleNoCatch(t, ok) ==
    [controls EXCEPT ![t.s][FlagOf(t.kind)] = ~t.seen]

\* controls after the call of click t settled: newState = !controls.<flag>
\* of the render the handler was created in, stored only when the call
\* resolved.
ControlsAfterToggle(t, ok) ==
    IF ok
    THEN [controls EXCEPT ![t.s][FlagOf(t.kind)] = ~t.seen]
    ELSE controls

\* A click on the audio, video or screen-share button: the handler calls
\* the hook and awaits it.  seen is the flag in the controls it closed over.
toggleClick(s, k) ==
    /\ ControlsRendered(s)
    /\ CanEmit(s)
    /\ Len(clicks) < MaxClicks
    /\ clicks' = Append(clicks,
                   [s |-> s, kind |-> k, seen |-> controls[s][FlagOf(k)],
                    pc |-> "pending"])
    /\ UNCHANGED <<connected, rooms, wire, inbox, status, restJoined, controls,
                   accepted, handled, sent, pageVars, emptyTicks, auth,
                   location, screen, mounted, inits, cleanups, roomJoined,
                   media, notice, track, lastEmit>>

\* The call awaited by click i settles.  Resolved: the flag is stored and
\* the toggle frame emitted.  Rejected: the catch shows the notification.
toggleSettled(i, ok) ==
    /\ i \in PendingClicks
    /\ LET t == clicks[i] IN
        /\ clicks' = [clicks EXCEPT ![i].pc = IF ok THEN "done" ELSE "failed"]
        /\ controls' = ControlsAfterToggle(t, ok)
        /\ IF ok
           THEN /\ track' = TrackAfter(t)
                /\ Emit(t.s, Frame(FrameOf(t.kind), {}, ~t.seen))
                /\ UNCHANGED notice
           ELSE /\ notice' = [notice EXCEPT ![t.s] =
                                Notice("error", FailMessage(t.kind))]
                /\ UNCHANGED <<track, wire, sent, lastEmit>>
    /\ UNCHANGED <<connected, rooms, inbox, status, restJoined, accepted,
                   handled, pageVars, emptyTicks, auth, location, screen,
                   mounted, inits, cleanups, roomJoined, media>>

\* handleToggleHand: newState = !controls.handRaised, stored and emitted.
handleToggleHand(s) ==
    /\ ControlsRendered(s)
    /\ CanEmit(s)
    /\ LET newState == ~controls[s].handRaised IN
        /\ controls' = [controls EXCEPT ![s].handRaised = newState]
        /\ Emit(s, Frame("toggle-hand", {}, newState))
        /\ notice' = [notice EXCEPT ![s] =
               Notice("info", IF newState THEN "Hand raised" ELSE "Hand lowered")]
    /\ UNCHANGED <<connected, rooms, inbox, status, restJoined, accepted,
                   handled, pageVars, emptyTicks, auth, location, screen,
                   mounted, inits, cleanups, roomJoined, media, clicks, track>>

\* A control bar that shows the recording button to every user.
RecordingControlRenderedForAll(s) == ControlsRendered(s)

\* The recording button is rendered: {user?.role === 'host' && (...)}.
RecordingControlRendered(s) ==
    /\ ControlsRendered(s)
    /\ auth[s].role = <<"host">>

\* handleToggleRecording, the onClick of the recording button: flips
\* controls.isRecording and emits start-recording or stop-recording.
handleToggleRecording(s) ==
    /\ RecordingControlRendered(s)
    /\ CanEmit(s)
    /\ LET newState == ~controls[s].isRecording IN
        /\ controls' = [controls EXCEPT ![s].isRecording = newState]
        /\ Emit(s, Frame(IF newState THEN "start-recording"
                         ELSE "stop-recording", {}, <<>>))
        /\ notice' = [notice EXCEPT ![s] =
               Notice("info", IF newState THEN "Recording started"
                              ELSE "Recording stopped")]
    /\ UNCHANGED <<connected, rooms, inbox, status, restJoined, accepted,
                   handled, pageVars, emptyTicks, auth, location, screen,
                   mounted, inits, cleanups, roomJoined, media, clicks, track>>

\* ------------------------------------------------- connection quality
\* The samples a client reports: latency in ms, packet loss in percent.
Samples == [latency : {100, 200, 400}, packetLoss : {0, 3}]

\* report(participantHandle, rawMetrics): the tier of a sample.
Tier(q) ==
    IF q.packetLoss > 5 \/ q.latency > 300 THEN "poor"
    ELSE IF q.packetLoss > 1 \/ q.latency > 150 THEN "fair"
    ELSE "good"

\* quality-report{latency, packetLoss, ...}, sent periodically by a client.
sendQualityReport(s, q) ==
    /\ Emit(s, Frame("quality-report", {}, q))
    /\ UNCHANGED <<connected, rooms, inbox, status, restJoined, controls,
                   accepted, handled>>
    /\ UNCHANGED <<pageVars, emptyTicks, clientVars, track>>

\* ------------------------------------------------------------------- next
Next ==
    \/ \E s \in Sockets : Connection(s)
    \/ \E s \in Sockets : Disconnect(s)
    \/ \E s \in Sockets : Receive(s)
    \/ \E s \in Sockets, m \in Meetings : joinMeeting(s, m)
    \/ \E m \in Meetings : endMeeting(m)
    \/ \E s \in Sockets : joinMeetingRoom(s)
    \/ \E s \in Sockets : handleToggleAudio(s)
    \/ \E s \in Sockets : handleToggleVideo(s)
    \/ \E s \in Sockets, t \in Sockets, p \in Payloads : sendSignal(s, t, p)
    \/ \E s \in Sockets, p \in Payloads : sendMessage(s, p)

Spec == Init /\ [][Next]_vars

\* The transcription bridge of a meeting and the page handlers that call it.
NextBridge ==
    \/ \E s \in Sockets, m \in Meetings : joinMeeting(s, m)
    \/ \E m \in Meetings : endMeeting(m)
    \/ \E s \in Sockets, m \in Meetings : handleToggleTranscription(s, m)
    \/ \E s \in Sockets, m \in Meetings, done \in 0..3 : cleanup(s, m, done)
    \/ \E m \in Meetings : workerDisconnect(m)

SpecBridge == Init /\ [][NextBridge]_vars

\* The room over time: joins, disconnects, the timer and the worker.
NextRoom ==
    \/ \E s \in Sockets : Connection(s)
    \/ \E s \in Sockets : Disconnect(s)
    \/ \E s \in Sockets : Receive(s)
    \/ \E s \in Sockets, m \in Meetings : joinMeeting(s, m)
    \/ \E m \in Meetings : endMeeting(m)
    \/ \E s \in Sockets : joinMeetingRoom(s)
    \/ \E m \in Meetings : Tick(m)
    \/ \E s \in Sockets, m \in Meetings : handleToggleTranscription(s, m)
    \/ \E m \in Meetings : workerDisconnect(m)

SpecRoom == Init /\ [][NextRoom]_vars

\* A video toggle from the click of one page to the handler of another.
NextVideo ==
    \/ \E s \in Sockets : Connection(s)
    \/ \E s \in Sockets : Disconnect(s)
    \/ \E s \in Sockets : Receive(s)
    \/ \E s \in Sockets : handleToggleVideo(s)
    \/ \E b \in Sockets, data \in VideoToggleEvents :
          handleParticipantVideoToggle(b, data)

SpecVideo == Init /\ [][NextVideo]_vars

\* The routes of the application and their guards.
NextRoute ==
    \/ \E s \in Sockets, a \in AuthSettled : authResolved(s, a)
    \/ \E s \in Sockets, path \in Paths : open(s, path)
    \/ \E s \in Sockets : followNavigate(s)

SpecRoute == Init /\ [][NextRoute]_vars

\* The life cycle of the meeting page: its effect, initializeMeeting,
\* cleanup and the Leave button, one awaited call at a time.
NextLife ==
    \/ \E s \in Pages, a \in AuthSettled : authResolved(s, a)
    \/ \E s \in Pages, m \in Meetings : mount(s, m)
    \/ \E s \in Pages : unmount(s)
    \/ \E i \in 1..MaxMounts, ok \in BOOLEAN : initializeMeetingStep(i, ok)
    \/ \E i \in 1..(MaxMounts + MaxLeaves), ok \in BOOLEAN : cleanupStep(i, ok)
    \/ \E s \in Pages : handleLeaveMeeting(s)

SpecLife == Init /\ [][NextLife]_vars

\* The control bar of a page that is joining or has joined.
NextControls ==
    \/ \E s \in Pages : Connection(s)
    \/ \E s \in Pages, a \in AuthSettled : authResolved(s, a)
    \/ \E s \in Pages, m \in Meetings : mount(s, m)
    \/ \E i \in 1..MaxMounts, ok \in BOOLEAN : initializeMeetingStep(i, ok)
    \/ \E s \in Pages, k \in Kinds : toggleClick(s, k)
    \/ \E i \in 1..MaxClicks, ok \in BOOLEAN : toggleSettled(i, ok)
    \/ \E s \in Pages : handleToggleHand(s)
    \/ \E s \in Pages : handleToggleRecording(s)

SpecControls == Init /\ [][NextControls]_vars

\* Quality samples of admitted participants on their way to the server.
NextQuality ==
    \/ \E s \in Sockets : Connection(s)
    \/ \E s \in Sockets : Receive(s)
    \/ \E s \in Sockets, m \in Meetings : joinMeeting(s, m)
    \/ \E s \in Sockets : joinMeetingRoom(s)
    \/ \E s \in Sockets, q \in Samples : sendQualityReport(s, q)

SpecQuality == Init /\ [][NextQuality]_vars

TypeOK ==
    /\ connected \subseteq Sockets
    /\ sent \in 0..MaxFrames
    /\ Len(handled) <= MaxFrames

\* ------------------------------------------------- vocabulary of the claims
\* Client frames that are Event Bus publications.
PublishTypes == {"toggle-audio", "toggle-video", "chat-message"}

\* The server -> client event the meeting page listens to for a publication.
EventName(type) ==
    CASE type = "toggle-audio" -> "participant-audio-toggle"
      [] type = "toggle-video" -> "participant-video-toggle"
      [] type = "chat-message" -> "new-message"
      [] OTHER -> type

\* Number of occurrences of frame e in sequence q.
Count(q, e) ==
    Cardinality({i \in 1..Len(q) : /\ q[i].type = e.type
                                   /\ q[i].from = e.from
                                   /\ q[i].data = e.data})

HasError(t, code) == Count(inbox[t], ErrorFrame(t, code)) > 0

HasAnyError(t) == \E i \in 1..Len(inbox[t]) : inbox[t][i].type = "error"

\* The meeting a handled frame is addressed to.
MeetingOf(h) ==
    IF h.frame.type = "join-room" THEN h.frame.data ELSE h.acc[h.from]

\* Sender and target of a handled signal were admitted to the same meeting.
BothAdmitted(h) ==
    /\ h.acc[h.from] # NoMeeting
    /\ h.frame.to # {}
    /\ \A t \in h.frame.to : h.acc[t] = h.acc[h.from]

HandledIdx == 1..Len(handled)

\* -------------------------------------------------------------------- C1
\* C1: after any sequence of admit and remove operations (removal by
\* disconnect included), listActive(m) is exactly the set of connections
\* currently admitted to m: every admitted one appears, no other does.
C1_ListActiveIsAdmitted ==
    \A m \in Meetings : listActive(m) = Admitted(m)

\* -------------------------------------------------------------------- C2
\* The publications of the room that participant t was admitted to when the
\* server handled them, other than its own, in the order the server handled
\* them (the room's single serialization order).
ExpectedEvents(t) ==
    LET sel(h) == /\ h.frame.type \in PublishTypes
                  /\ h.from # t
                  /\ h.acc[h.from] # NoMeeting
                  /\ h.acc[t] = h.acc[h.from]
        picked == SelectSeq(handled, sel)
    IN [i \in 1..Len(picked) |->
          ServerFrame(EventName(picked[i].frame.type), picked[i].from,
                      picked[i].frame.data)]

\* The publications of others that participant t has received, in order.
ObservedEvents(t) ==
    SelectSeq(inbox[t],
              LAMBDA e : /\ e.type \in {EventName(ty) : ty \in PublishTypes}
                         /\ e.from # t)

\* C2: within one meeting every Event Bus publication is observed by all
\* admitted participants, and all of them observe the publications in one
\* and the same order (the order in which the room handled them).
C2_AllObserveOneOrder ==
    \A t \in Sockets : ObservedEvents(t) = ExpectedEvents(t)

\* -------------------------------------------------------------------- C4
\* C4: ENDED is terminal and every admit (join-room), relay (signal) and
\* publish attempted on a meeting that is ENDED fails with RoomClosed,
\* returned to the sender.
C4_EndedRejectsWithRoomClosed ==
    \A i \in HandledIdx :
        LET h == handled[i] IN
        (/\ h.frame.type \in PublishTypes \cup {"join-room", "signal"}
         /\ MeetingOf(h) # NoMeeting
         /\ h.st[MeetingOf(h)] = "ENDED")
        => HasError(h.from, "RoomClosed")

\* -------------------------------------------------------------------- C5
\* C5: for every sender s, target t and payload p, t has received exactly
\* as many signal frames (s, p) as s sent to t while both were admitted to
\* the same room (one per frame sent, payload identical), and no other
\* participant received any of them.
SignalsRelayed(s, t, p) ==
    Cardinality({i \in HandledIdx :
        /\ handled[i].frame.type = "signal"
        /\ handled[i].frame.to = {t}
        /\ handled[i].frame.data = p
        /\ handled[i].from = s
        /\ BothAdmitted(handled[i])})

C5_SignalExactlyOnce ==
    \A s \in Sockets, t \in Sockets, p \in Payloads :
        Count(inbox[t], ServerFrame("signal", s, p)) = SignalsRelayed(s, t, p)

\* -------------------------------------------------------------------- C6
\* C6: every signal, toggle or chat frame handled for a connection that is
\* not admitted to a room has been answered with an error to its sender.
C6_UnknownParticipantRejected ==
    \A i \in HandledIdx :
        LET h == handled[i] IN
        (/\ h.frame.type \in PublishTypes \cup {"signal"}
         /\ h.acc[h.from] = NoMeeting)
        => HasAnyError(h.from)

\* -------------------------------------------------------------------- C7
\* C7: a join-room handled for an ENDED meeting has failed with RoomClosed,
\* one handled for a connection that is already admitted has failed with
\* DuplicateSession, and neither has changed the registry.
C7_AdmitFailures ==
    \A i \in HandledIdx :
        LET h == handled[i] IN
        h.frame.type = "join-room" =>
            /\ h.st[h.frame.data] = "ENDED" => HasError(h.from, "RoomClosed")
            /\ h.acc[h.from] # NoMeeting
                   => HasError(h.from, "DuplicateSession")

\* -------------------------------------------------------------------- C8
\* C8: a signal whose sender and target are not both admitted to the same
\* meeting has failed with UnknownPeer returned to the sender, and signal
\* frames reach a participant only from relays between two admitted peers.
C8_RelayValidatesPeers ==
    /\ \A i \in HandledIdx :
          LET h == handled[i] IN
          (h.frame.type = "signal" /\ ~BothAdmitted(h))
          => HasError(h.from, "UnknownPeer")
    /\ \A s \in Sockets, t \in Sockets, p \in Payloads :
          Count(inbox[t], ServerFrame("signal", s, p)) <= SignalsRelayed(s, t, p)

\* -------------------------------------------------------------------- C9
\* A participant-left event for t has been emitted to somebody.
LeftEmitted(t) ==
    \E u \in Sockets : \E i \in 1..Len(inbox[u]) :
        inbox[u][i].type = "participant-left" /\ inbox[u][i].from = t

\* C9: no chat message is silently dropped for an admitted participant:
\* every chat message the room handled has been delivered to each other
\* participant admitted at that time, except to one that was forcibly
\* disconnected with a participant-left event emitted for it.
C9_NoChatLost ==
    \A i \in HandledIdx : \A t \in Sockets :
        LET h == handled[i] IN
        (/\ h.frame.type = "chat-message"
         /\ t # h.from
         /\ h.acc[h.from] # NoMeeting
         /\ h.acc[t] = h.acc[h.from])
        => \/ Count(inbox[t], ServerFrame("new-message", h.from, h.frame.data)) > 0
           \/ (t \notin connected /\ LeftEmitted(t))

\* ------------------------------------------------------------------- C11
\* C11: a meeting never has more than one transcription worker subscription,
\* it has one exactly while its bridge is STREAMING, and a start issued
\* while STREAMING has failed with AlreadyStreaming and opened none.
C11_OneSubscription ==
    \A m \in Meetings :
        /\ subs[m] <= 1
        /\ (bridge[m] = "STREAMING") <=> (subs[m] = 1)
        /\ (lastTx[m].op = "start" /\ lastTx[m].before = "STREAMING")
           => (lastTx[m].result = "AlreadyStreaming" /\ subs[m] = 1)

\* A second page started transcription while the bridge was STREAMING.
C11_Witness ==
    \E m \in Meetings :
        /\ lastTx[m].op = "start"
        /\ lastTx[m].result = "AlreadyStreaming"
        /\ subs[m] = 1
        /\ \A s \in Sockets : isTranscribing[s]

\* ------------------------------------------------------------------- C12
\* C12: a meeting that has been ACTIVE with zero admitted participants for
\* longer than the grace period is ENDED.
C12_EmptyPastGraceEnds ==
    \A m \in Meetings : emptyTicks[m] > GracePeriod => status[m] = "ENDED"

\* ------------------------------------------------------------------- C13
\* C13: once participant B has handled participant-video-toggle
\* {participantId: A, enabled: v}, the video state B holds for A is v.
C13_ViewRecordsToggle ==
    \A b \in Sockets :
        lastEvent[b] # <<>> =>
            view[b][lastEvent[b][1].participantId] = <<lastEvent[b][1].enabled>>

\* ------------------------------------------------------------------- C14
\* The server has emitted event type about participant a to socket t.
Notified(t, type, a) ==
    \E i \in 1..Len(inbox[t]) : inbox[t][i].type = type /\ inbox[t][i].from = a

\* C14: every successful admit has been followed by a participant-joined
\* event and every flag update by a participant-<flag>-toggle event, at each
\* other participant admitted to that meeting at the time.
C14_RegistryCallsNotify ==
    \A i \in HandledIdx : \A t \in Sockets :
        LET h == handled[i] IN
        (t # h.from /\ h.acc[t] # NoMeeting /\ h.acc[t] = MeetingOf(h)) =>
            /\ (h.frame.type = "join-room" /\ h.acc[h.from] = NoMeeting
                    /\ h.st[h.frame.data] # "ENDED")
               => Notified(t, "participant-joined", h.from)
            /\ h.frame.type \in {"toggle-audio", "toggle-video"}
               => Notified(t, EventName(h.frame.type), h.from)

\* ------------------------------------------------------------------- C16
\* The sender of handled frame i had been admitted earlier and was removed.
WasRemoved(i) ==
    /\ handled[i].acc[handled[i].from] = NoMeeting
    /\ \E j \in 1..(i - 1) :
          /\ handled[j].from = handled[i].from
          /\ handled[j].frame.type = "join-room"

\* C16: a flag update handled for a participant that has been removed has
\* failed with NotFound returned to its sender.
C16_RemovedUpdateNotFound ==
    \A i \in HandledIdx :
        (handled[i].frame.type \in {"toggle-audio", "toggle-video"}
            /\ WasRemoved(i))
        => HasError(handled[i].from, "NotFound")

\* ------------------------------------------------------------------- C17
\* The contract rejects handled frame h: a join to an ENDED meeting or of an
\* admitted connection, a signal between peers not admitted to one meeting,
\* a toggle of a connection that is not admitted.
MustReject(h) ==
    \/ /\ h.frame.type = "join-room"
       /\ (h.st[h.frame.data] = "ENDED" \/ h.acc[h.from] # NoMeeting)
    \/ h.frame.type = "signal" /\ ~BothAdmitted(h)
    \/ /\ h.frame.type \in {"toggle-audio", "toggle-video"}
       /\ h.acc[h.from] = NoMeeting

\* C17: for every rejected join-room, signal or toggle frame the originating
\* client has received an explicit error event (as many error events as
\* rejected frames).
C17_RejectionIsErrorEvent ==
    \A s \in Sockets :
        Cardinality({i \in HandledIdx :
                        handled[i].from = s /\ MustReject(handled[i])})
        <= Cardinality({i \in 1..Len(inbox[s]) : inbox[s][i].type = "error"})

\* ------------------------------------------------------------------- C18
\* C18: after the worker of a STREAMING bridge disconnected the bridge is
\* IDLE and every participant admitted then and since has received a
\* transcription-stopped event.
C18_WorkerLossVisible ==
    \A m \in Meetings :
        lastTx[m].op = "workerDisconnect" =>
            /\ bridge[m] = "IDLE"
            /\ \A s \in lastTx[m].room \cap Admitted(m) :
                  \E i \in 1..Len(inbox[s]) :
                      inbox[s][i].type = "transcription-stopped"

\* ------------------------------------------------------------------- C19
\* C19: after any stop the bridge is IDLE and holds no subscription, and the
\* stop returned without error, whether it was called in STREAMING or in IDLE.
C19_StopLeavesIdle ==
    \A m \in Meetings :
        lastTx[m].op = "stop" =>
            /\ bridge[m] = "IDLE"
            /\ subs[m] = 0
            /\ lastTx[m].result = "ok"

\* stop was called on a bridge that was already IDLE.
C19_Witness ==
    \E m \in Meetings :
        /\ lastTx[m].op = "stop"
        /\ lastTx[m].before = "IDLE"
        /\ bridge[m] = "IDLE"

\* ------------------------------------------------------------------- C20
\* C20: in every state where a meeting is ENDED its transcription bridge is
\* IDLE and holds no open worker subscription.
C20_EndedReleasesBridge ==
    \A m \in Meetings :
        status[m] = "ENDED" => (bridge[m] = "IDLE" /\ subs[m] = 0)

\* ------------------------------------------------------------------- C21
\* The quality reports of s the server handled while s was admitted.
QualityReports(s) ==
    SelectSeq(handled, LAMBDA h : /\ h.from = s
                                  /\ h.frame.type = "quality-report"
                                  /\ h.acc[s] # NoMeeting)

\* How often a report of s mapped to another tier than the one before it.
TierTransitions(s) ==
    LET r == QualityReports(s) IN
    Cardinality({i \in 2..Len(r) :
                    Tier(r[i].frame.data) # Tier(r[i - 1].frame.data)})

\* C21: a quality-changed event about participant s has been emitted exactly
\* when one of its reported samples mapped to a tier different from the tier
\* of its previous sample; samples of one and the same tier emit none.
C21_QualityChangedOnTransition ==
    \A s \in Sockets :
        (TierTransitions(s) > 0)
            <=> (\E t \in Sockets : Notified(t, "quality-changed", s))

\* ------------------------------------------------------------------- C22
\* No call of an initializeMeeting or cleanup of client s is pending.
Quiescent(s) ==
    /\ \A i \in 1..Len(inits) : inits[i].s = s => inits[i].pc \notin InitSteps
    /\ \A i \in 1..Len(cleanups) :
          cleanups[i].s = s => cleanups[i].pc \notin CleanupSteps

CleanupStarted(s) == \E i \in 1..Len(cleanups) : cleanups[i].s = s

\* No call of an initializeMeeting or cleanup of client s was rejected.
NothingFailed(s) ==
    /\ \A i \in 1..Len(inits) : inits[i].s = s => inits[i].pc # "failed"
    /\ \A i \in 1..Len(cleanups) : cleanups[i].s = s => cleanups[i].pc # "failed"

\* C22: in every quiescent state after the page was unmounted and its
\* cleanup ran (every call having resolved), the client is joined neither
\* to the WebSocket room nor to the meeting through the REST API.
C22_NoJoinAfterCleanup ==
    \A s \in Sockets :
        (/\ mounted[s] = NoMeeting
         /\ CleanupStarted(s)
         /\ Quiescent(s)
         /\ NothingFailed(s))
        => (~roomJoined[s] /\ restJoined[s] = NoMeeting)

\* ------------------------------------------------------------------- C23
\* No toggle click of client s is pending.
Settled(s) ==
    \A i \in 1..Len(clicks) : clicks[i].s = s => clicks[i].pc # "pending"

\* The data of the last frame of a type that s emitted, <<>> if none.
LastFrame(s, type) ==
    LET idx == {i \in 1..Len(wire[s]) : wire[s][i].type = type} IN
    IF idx = {} THEN <<>>
    ELSE <<wire[s][CHOOSE i \in idx : \A j \in idx : j <= i].data>>

\* C23: once all toggle clicks have completed, controls.audioEnabled
\* (videoEnabled) equals the enabled state of the local audio (video) track
\* and the last toggle-audio (toggle-video) frame emitted carries that value.
C23_ControlsMatchTrack ==
    \A s \in Sockets :
        Settled(s) =>
            /\ controls[s].audioEnabled = track[s].audio
            /\ LastFrame(s, "toggle-audio") \in {<<>>, <<track[s].audio>>}
            /\ controls[s].videoEnabled = track[s].video
            /\ LastFrame(s, "toggle-video") \in {<<>>, <<track[s].video>>}

\* ------------------------------------------------------------------- C24
InitOrder == <<"joinMeeting", "initializeWebRTC", "joinMeetingRoom">>

IsPrefix(p, q) == Len(p) <= Len(q) /\ \A k \in 1..Len(p) : p[k] = q[k]

\* Every activation called its steps in order, each after all earlier ones
\* had resolved; one that failed did so in the last step it called.
InitInOrder ==
    \A i \in 1..Len(inits) :
        /\ IsPrefix(inits[i].ran, InitOrder)
        /\ IsPrefix(inits[i].okd, inits[i].ran)
        /\ Len(inits[i].ran) <= Len(inits[i].okd) + 1
        /\ inits[i].pc = "failed" => Len(inits[i].okd) < Len(inits[i].ran)
        /\ inits[i].pc = "done" => inits[i].okd = InitOrder

C25_CleanupReleasesAll ==
    \A i \in 1..Len(cleanups) :
        cleanups[i].pc \in {"done", "failed"}
            => cleanups[i].released = ReleaseSteps

\* ------------------------------------------------------------------- C26
\* C26: a client has started the leave sequence at most once for each join
\* it started, whether by the Leave button, by unmounting, or by both.
C26_LeaveOncePerJoin ==
    \A s \in Sockets :
        Cardinality({i \in 1..Len(cleanups) : cleanups[i].s = s})
            <= Cardinality({i \in 1..Len(inits) : inits[i].s = s})

\* ------------------------------------------------------------------- C27
ControlFrames ==
    {"toggle-audio", "toggle-video", "toggle-screen-share", "toggle-hand",
     "start-recording", "stop-recording"}

\* C27: every toggle-audio, toggle-video, toggle-screen-share, toggle-hand,
\* start-recording and stop-recording frame was emitted while the client was
\* joined to the room (joinMeetingRoom resolved, leaveMeetingRoom not yet).
C27_ControlFramesWhileJoined ==
    \A s \in Sockets :
        (lastEmit[s] # <<>> /\ lastEmit[s][1].frame.type \in ControlFrames)
            => lastEmit[s][1].joined

C29_RecordingOnlyByHost ==
    \A s \in Sockets :
        (/\ lastEmit[s] # <<>>
         /\ lastEmit[s][1].frame.type \in {"start-recording", "stop-recording"})
        => lastEmit[s][1].role = <<"host">>

\* A host has started and stopped a recording.
C29_Witness ==
    \E s \in Sockets :
        /\ lastEmit[s] # <<>>
        /\ lastEmit[s][1].frame.type = "stop-recording"
        /\ lastEmit[s][1].role = <<"host">>
        /\ ~controls[s].isRecording

\* ------------------------------------------------------------------- C30
\* C30: a protected route shows its content only when authentication has
\* finished loading and the user is authenticated (and has the required
\* role when one is given); once loading has finished an unauthenticated
\* user on a protected route is sent to /login and an authenticated user on
\* /login or /register is sent to /dashboard.
C30_RoutesGuarded ==
    /\ \A s \in Sockets :
          /\ (location[s] \in ProtectedPaths /\ screen[s] = Children)
                => (~auth[s].isLoading /\ auth[s].isAuthenticated)
          /\ (/\ location[s] \in ProtectedPaths
              /\ ~auth[s].isLoading
              /\ ~auth[s].isAuthenticated)
                => screen[s] = Navigate("/login")
          /\ (/\ location[s] \in PublicPaths
              /\ ~auth[s].isLoading
              /\ auth[s].isAuthenticated)
                => screen[s] = Navigate("/dashboard")
    /\ \A a \in AuthInputs, req \in OptRoles :
          ProtectedRoute(a, req) = Children =>
              /\ ~a.isLoading
              /\ a.isAuthenticated
              /\ req # <<>> => a.role = req

\* One user without a session has opened the meeting page, one with a
\* session has opened /login, and another shows a protected page.
C30_Witness ==
    /\ \E s \in Sockets :
          location[s] = MeetingPath /\ screen[s] = Navigate("/login")
    /\ \E s \in Sockets :
          /\ location[s] \in PublicPaths
          /\ screen[s] = Navigate("/dashboard")
====
